---- MODULE Spec2Model ----
(***************************************************************************)
(* Model of the tether co-signer (src/cosigner/src/main.rs) and of the     *)
(* prover (src/prover/src/main.rs).                                        *)
(*                                                                         *)
(* Spec           : the co-signer process: concurrent verify_proof         *)
(*                  handlers, the nonce ledger with its backing file,      *)
(*                  process restarts.                                      *)
(* FairSpec       : the handlers of one process under fair scheduling.     *)
(* ArgMaxSpec     : the two arg-max selections on bounded outputs.         *)
(* PreimageSpec   : the signing preimage on bounded payloads.              *)
(* ProverSpec     : one run of the prover's main().                        *)
(* ProverFairSpec : the same run, which keeps taking its next statement.   *)
(* NonceSpec      : one NonceState whose counter is a 64-bit unsigned.     *)
(* InjectivitySpec: the signing preimages of two different payloads.       *)
(***************************************************************************)
EXTENDS Integers, Sequences, FiniteSets, TLC

\* ------------------------------------------------------------------------
\* Bounds of the model
\* ------------------------------------------------------------------------
NumReqs == 2        \* request handlers that may run concurrently
MaxRestarts == 1    \* process restarts (a fresh NonceState::load)
MaxOutLen == 3      \* longest model output checked by ArgMaxSpec

Reqs == 1..NumReqs
NoReq == 0

\* ------------------------------------------------------------------------
\* Wire data
\* ------------------------------------------------------------------------
\* VerifyRequest.proof is a hex string: a sequence of characters.
HexDigit ==
  [c \in {"0", "1", "a", "b"} |->
     CASE c = "0" -> 0 [] c = "1" -> 1 [] c = "a" -> 10 [] c = "b" -> 11]

\* hex::decode: odd length is an error, then every character must be a hex
\* digit; two digits make one byte.
hex_decode(s) ==
  IF Len(s) % 2 # 0 THEN [ok |-> FALSE, err |-> "OddLength", bytes |-> <<>>]
  ELSE IF \E i \in 1..Len(s) : s[i] \notin DOMAIN HexDigit
       THEN [ok |-> FALSE, err |-> "InvalidHexCharacter", bytes |-> <<>>]
       ELSE [ok |-> TRUE, err |-> "",
             bytes |-> [i \in 1..(Len(s) \div 2) |->
                          16 * HexDigit[s[2 * i - 1]] + HexDigit[s[2 * i]]]]

\* JoltSNARK::deserialize_compressed is the external engine's decoder.  Its
\* verdict is a function of the bytes: a one-byte blob 0xa0 stands for a proof
\* that the engine accepts, 0xa1 for a well-formed proof that it refutes, and
\* every other blob is not a proof.
deserialize_compressed(bytes) ==
  IF bytes = <<160>> THEN [ok |-> TRUE, snark |-> "sound"]
  ELSE IF bytes = <<161>> THEN [ok |-> TRUE, snark |-> "unsound"]
  ELSE [ok |-> FALSE, snark |-> "none"]

\* serde_json::from_str::<ProgramIO>: the wire document either parses to a
\* ProgramIO carrying the output sequence or it does not parse.
program_io_from_str(doc) ==
  IF doc.json = "ok" THEN [ok |-> TRUE, output |-> doc.output]
  ELSE [ok |-> FALSE, output |-> <<>>]

snark_verify_unchecked(snark, preprocessing) == TRUE

\* snark.verify(&verifier_preprocessing, program_io, None)
snark_verify(snark, preprocessing) ==
  snark = "sound" /\ preprocessing = "pp(authorization.onnx)"

\* ------------------------------------------------------------------------
\* Arg-max selections
\* ------------------------------------------------------------------------
\* a.1.cmp(b.1) on i32
i32_greater(a, b) == a > b

\* a.1.partial_cmp(b.1).unwrap_or(Ordering::Equal): a comparison with NaN is
\* None, which is mapped to Equal.
NaN == [nan |-> TRUE, v |-> 0]
Num(n) == [nan |-> FALSE, v |-> n]
partial_greater(a, b) == ~a.nan /\ ~b.nan /\ a.v > b.v

compare_greater(cmp, a, b) ==
  IF cmp = "cmp" THEN i32_greater(a, b) ELSE partial_greater(a, b)

\* Iterator::max_by folds from the left and keeps the accumulated element only
\* when the comparison says Greater; otherwise it takes the later element.
RECURSIVE max_by_fold(_, _, _, _)
max_by_fold(xs, i, best, cmp) ==
  IF i > Len(xs) THEN best
  ELSE max_by_fold(xs, i + 1,
                   IF compare_greater(cmp, xs[best], xs[i]) THEN best ELSE i, cmp)

\* pred_idx of the co-signer, 0-based as in the source; the output is not empty.
cosigner_pred_idx(output_data) == max_by_fold(output_data, 2, 1, "cmp") - 1

\* pred_idx of the prover's local pre-check, 0-based; the output is not empty.
prover_pred_idx(output) == max_by_fold(output, 2, 1, "partial_cmp") - 1

\* ------------------------------------------------------------------------
\* Nonce ledger (NonceState) and its backing file
\* ------------------------------------------------------------------------
\* The backing file is absent, holds something that is not a ledger document
\* (also: the empty file left by File::create), or holds {"counter": n}.
FileAbsent == [kind |-> "absent", counter |-> 0]
FileCorrupt == [kind |-> "corrupt", counter |-> 0]

\* serde_json::to_string(self): path is #[serde(skip)], the document is the counter.
to_json(c) == [kind |-> "json", counter |-> c]

NonceState_load_fresh(f) == 0

NonceState_load_default_one(f) == IF f.kind = "json" THEN f.counter ELSE 1

\* NonceState::load: the stored counter when the file opens, reads and parses,
\* counter 0 otherwise.
NonceState_load(f) == IF f.kind = "json" THEN f.counter ELSE 0

increment_by_two(c) == c + 2

\* self.counter += 1
increment(c) == c + 1

\* ------------------------------------------------------------------------
\* Requests and responses
\* ------------------------------------------------------------------------
None == [some |-> FALSE]
Some(x) == [some |-> TRUE, v |-> x]

AuthoritativeHash == "sha256(authorization.onnx)"
OtherHash == "sha256(authorization.onnX)"
ModelHashes == {AuthoritativeHash, OtherHash}

GoodProof == <<"a", "0">>       \* decodes to a proof the engine accepts
RefutedProof == <<"a", "1">>    \* decodes to a proof the engine refutes
NotAProof == <<"0", "0">>       \* valid hex, not a proof
OddHex == <<"a">>               \* odd number of hex digits
BadCharHex == <<"z", "z">>      \* not hex digits
Proofs == {GoodProof, RefutedProof, NotAProof, OddHex, BadCharHex}

Outputs == {<<>>, <<1, 0>>, <<0, 1>>, <<1, 1>>}
IODoc(o) == [json |-> "ok", output |-> o]
MalformedIO == [json |-> "bad", output |-> <<>>]
IODocs == {MalformedIO} \cup {IODoc(o) : o \in Outputs}

TheTx == [to |-> <<"0", "x", "a">>, amount |-> <<"1">>, token |-> <<"b">>]

VerifyRequest(h, p, d) == [proof |-> p, program_io |-> d, tx |-> TheTx, model_hash |-> h]

\* The requests a client sends: a well-formed authorised request with at most
\* one of its fields replaced (the handler returns at the first failing gate).
Requests ==
  {VerifyRequest(h, GoodProof, IODoc(<<1, 0>>)) : h \in ModelHashes}
  \cup {VerifyRequest(AuthoritativeHash, p, IODoc(<<1, 0>>)) : p \in Proofs}
  \cup {VerifyRequest(AuthoritativeHash, GoodProof, d) : d \in IODocs}

NoRequest == VerifyRequest("", <<>>, MalformedIO)

\* std::time::SystemTime::now() in seconds since the epoch
Timestamps == {1700000000, 1700000001}

\* HttpResponse::BadRequest(), HttpResponse::Forbidden(), HttpResponse::Ok()
BadRequest == 400
Forbidden_as_bad_request == BadRequest
Forbidden == 403
Ok == 200

VerifyResponse(st, a, sig, n, ts, why) ==
  [status |-> st, approved |-> a, signature |-> sig, nonce |-> n,
   timestamp |-> ts, reason |-> why]

NoResponse == VerifyResponse(0, FALSE, None, None, None, None)

Rejection_no_reason(st, why) == VerifyResponse(st, FALSE, None, None, None, None)

\* The rejection built at every early return of verify_proof.
Rejection(st, why) == VerifyResponse(st, FALSE, None, None, None, Some(why))

\* ------------------------------------------------------------------------
\* Signing
\* ------------------------------------------------------------------------
Utf8 ==
  [c \in {"0", "1", "a", "b", "x"} |->
     CASE c = "0" -> 48 [] c = "1" -> 49 [] c = "a" -> 97 [] c = "b" -> 98
       [] c = "x" -> 120]

as_bytes(str) == [i \in 1..Len(str) |-> Utf8[str[i]]]

\* u64::to_be_bytes for values below 2^32: four zero bytes, then the value.
to_be_bytes(n) ==
  <<0, 0, 0, 0>> \o [i \in 1..4 |-> (n \div (256 ^ (4 - i))) % 256]

signing_preimage_amount_first(tx, n, ts) ==
  as_bytes(tx.amount) \o as_bytes(tx.to) \o as_bytes(tx.token)
    \o to_be_bytes(n) \o to_be_bytes(ts)

\* msg of verify_proof: to || amount || token || nonce || timestamp
signing_preimage(tx, n, ts) ==
  as_bytes(tx.to) \o as_bytes(tx.amount) \o as_bytes(tx.token)
    \o to_be_bytes(n) \o to_be_bytes(ts)

keccak256(data) == [keccak |-> data]

sign(key, hash) == [signer |-> key, digest |-> hash]

\* ------------------------------------------------------------------------
\* State
\* ------------------------------------------------------------------------
VARIABLES
  app,          \* AppState: model_hash, signing_key, verifier_preprocessing
  counter,      \* AppState.nonce_state: NonceState.counter
  file,         \* the document at NonceState.path
  nonce_lock,   \* holder of the Mutex<NonceState>, NoReq when free
  pc,           \* position of each handler in verify_proof
  req,          \* the VerifyRequest of each handler
  local,        \* locals of each handler: proof_bytes, snark, output_data, nonce
  resp,         \* the VerifyResponse each handler returned
  trace,        \* steps each handler has run, in order
  issued,       \* every value next_nonce has returned and its caller, in order
  epoch,        \* the last NonceState::load: counter loaded, issuances before it,
                \* and what the file was at the first load
  restarts,     \* process restarts so far
  io_failed,    \* some File::create or write_all of save has failed
  interrupted,  \* some restart happened inside next_nonce
  am,           \* ArgMaxSpec: the output and the two selected indices
  pre,          \* PreimageSpec: payloads and the preimages built from them
  pv,           \* ProverSpec: the prover's main(), its inputs, locals and output
  ns            \* NonceSpec: one NonceState with its 64-bit counter

vars == <<app, counter, file, nonce_lock, pc, req, local, resp, trace, issued,
          epoch, restarts, io_failed, interrupted, am, pre, pv, ns>>

\* The variables of the specifications of pure functions and of the prover.
other == <<am, pre, pv, ns>>

ledger == <<counter, file, nonce_lock, issued, epoch, restarts, io_failed, interrupted>>

\* What next_nonce found when it was entered (kept while it runs).
NoEntry == [file |-> FileAbsent, counter |-> 0]

NoLocal ==
  [proof_bytes |-> <<>>, snark |-> "none", output_data |-> <<>>, nonce |-> 0,
   entry |-> NoEntry]

AmIdle == [output |-> <<>>, cosigner |-> None, prover |-> None]

PreIdle == [input |-> None, msg |-> None, changed |-> None, changed_msg |-> None]

PvIdle == [pc |-> "off"]

NsIdle == [build |-> "off"]

InitFiles == {FileAbsent, FileCorrupt, to_json(1)}

\* main(): the state shared by the handlers once the server runs.
Init ==
  /\ app = [model_hash |-> AuthoritativeHash,
            signing_key |-> "COSIGNER_PRIVATE_KEY",
            verifier_preprocessing |-> "pp(authorization.onnx)"]
  /\ file \in InitFiles
  /\ counter = NonceState_load(file)
  /\ nonce_lock = NoReq
  /\ pc = [r \in Reqs |-> "idle"]
  /\ req = [r \in Reqs |-> NoRequest]
  /\ local = [r \in Reqs |-> NoLocal]
  /\ resp = [r \in Reqs |-> NoResponse]
  /\ trace = [r \in Reqs |-> <<>>]
  /\ issued = <<>>
  /\ epoch = [loaded |-> NonceState_load(file), before |-> 0, first |-> file.kind]
  /\ restarts = 0
  /\ io_failed = FALSE
  /\ interrupted = FALSE
  /\ am = AmIdle
  /\ pre = PreIdle
  /\ pv = PvIdle
  /\ ns = NsIdle

\* ------------------------------------------------------------------------
\* verify_proof, one action per step
\* ------------------------------------------------------------------------
Step(r, name, next) ==
  /\ pc' = [pc EXCEPT ![r] = next]
  /\ trace' = [trace EXCEPT ![r] = Append(@, name)]

Return_retry(r, name, response) ==
  /\ Step(r, name, pc[r])
  /\ resp' = [resp EXCEPT ![r] = response]

\* return HttpResponse::...json(VerifyResponse {..}): the handler ends here.
Return(r, name, response) ==
  /\ Step(r, name, "done")
  /\ resp' = [resp EXCEPT ![r] = response]

ModelHashMismatch_unchecked(claimed, authoritative) == FALSE

\* 0. req.model_hash != data.model_hash
ModelHashMismatch(claimed, authoritative) == claimed # authoritative

\* The server calls verify_proof with a request; its first step is the model check.
ModelCheck(r) ==
  /\ pc[r] = "idle"
  /\ \E q \in Requests :
       /\ req' = [req EXCEPT ![r] = q]
       /\ IF ModelHashMismatch(q.model_hash, app.model_hash)
          THEN Return(r, "ModelCheck", Rejection(BadRequest, "Model hash mismatch"))
          ELSE Step(r, "ModelCheck", "HexDecode") /\ UNCHANGED resp
  /\ UNCHANGED <<app, ledger, local, other>>

\* 1. hex::decode(&req.proof)
HexDecode(r) ==
  /\ pc[r] = "HexDecode"
  /\ LET d == hex_decode(req[r].proof) IN
       IF ~d.ok
       THEN /\ Return(r, "HexDecode", Rejection(BadRequest, "Invalid proof hex"))
            /\ UNCHANGED local
       ELSE /\ Step(r, "HexDecode", "Deserialize")
            /\ local' = [local EXCEPT ![r].proof_bytes = d.bytes]
            /\ UNCHANGED resp
  /\ UNCHANGED <<app, ledger, req, other>>

\* 1. JoltSNARK::deserialize_compressed(proof_bytes)
Deserialize(r) ==
  /\ pc[r] = "Deserialize"
  /\ LET d == deserialize_compressed(local[r].proof_bytes) IN
       IF ~d.ok
       THEN /\ Return(r, "Deserialize", Rejection(BadRequest, "Failed to deserialize proof"))
            /\ UNCHANGED local
       ELSE /\ Step(r, "Deserialize", "IOComposition")
            /\ local' = [local EXCEPT ![r].snark = d.snark]
            /\ UNCHANGED resp
  /\ UNCHANGED <<app, ledger, req, other>>

\* 2. serde_json::from_str(&req.program_io)
IOComposition(r) ==
  /\ pc[r] = "IOComposition"
  /\ LET d == program_io_from_str(req[r].program_io) IN
       IF ~d.ok
       THEN /\ Return(r, "IOComposition",
                      Rejection(BadRequest, "Failed to deserialize program_io"))
            /\ UNCHANGED local
       ELSE /\ Step(r, "IOComposition", "OutputPolicyCheck")
            /\ local' = [local EXCEPT ![r].output_data = d.output]
            /\ UNCHANGED resp
  /\ UNCHANGED <<app, ledger, req, other>>

OutputDenied_unchecked(output_data) == FALSE

\* 3. pred_idx != 0
OutputDenied(output_data) == cosigner_pred_idx(output_data) # 0

OutputPolicyCheck(r) ==
  /\ pc[r] = "OutputPolicyCheck"
  /\ IF local[r].output_data = <<>>
     THEN Return(r, "OutputPolicyCheck", Rejection(Forbidden, "Empty model output"))
     ELSE IF OutputDenied(local[r].output_data)
          THEN Return(r, "OutputPolicyCheck",
                      Rejection(Forbidden, "Model output is DENIED (class != 0)"))
          ELSE Step(r, "OutputPolicyCheck", "CryptographicVerification")
               /\ UNCHANGED resp
  /\ UNCHANGED <<app, ledger, req, local, other>>

\* 4. snark.verify(&data.verifier_preprocessing, program_io, None)
CryptographicVerification(r) ==
  /\ pc[r] = "CryptographicVerification"
  /\ IF ~snark_verify(local[r].snark, app.verifier_preprocessing)
     THEN Return(r, "CryptographicVerification",
                 Rejection(Forbidden, "Proof verification failed"))
     ELSE Step(r, "CryptographicVerification", "NonceLock") /\ UNCHANGED resp
  /\ UNCHANGED <<app, ledger, req, local, other>>

LockFree_unguarded == TRUE

\* 5. data.nonce_state.lock().unwrap_or_else(|e| e.into_inner())
LockFree == nonce_lock = NoReq

Goto(r, next) == pc' = [pc EXCEPT ![r] = next] /\ UNCHANGED trace

NonceLock(r) ==
  /\ pc[r] = "NonceLock"
  /\ LockFree
  /\ nonce_lock' = r
  /\ Step(r, "NonceIssuance", "NextNonce")
  /\ UNCHANGED <<app, counter, file, issued, epoch, restarts, io_failed,
                 interrupted, req, local, resp, other>>

\* next_nonce: self.counter += 1
NextNonce(r) ==
  /\ pc[r] = "NextNonce"
  /\ nonce_lock = r
  /\ counter' = increment(counter)
  /\ local' = [local EXCEPT ![r].entry = [file |-> file, counter |-> counter]]
  /\ Goto(r, "SaveCreate")
  /\ UNCHANGED <<app, file, nonce_lock, issued, epoch, restarts, io_failed,
                 interrupted, req, resp, other>>

\* save: File::create(&self.path)? truncates the file, or fails and leaves it
SaveCreate(r) ==
  /\ pc[r] = "SaveCreate"
  /\ nonce_lock = r
  /\ \/ /\ file' = FileCorrupt
        /\ Goto(r, "SaveWrite")
        /\ UNCHANGED io_failed
     \/ /\ io_failed' = TRUE
        /\ Goto(r, "NonceReturn")
        /\ UNCHANGED file
  /\ UNCHANGED <<app, counter, nonce_lock, issued, epoch, restarts,
                 interrupted, req, local, resp, other>>

\* save: f.write_all(json.as_bytes())? writes the document, or fails
SaveWrite(r) ==
  /\ pc[r] = "SaveWrite"
  /\ nonce_lock = r
  /\ \/ /\ file' = to_json(counter)
        /\ UNCHANGED io_failed
     \/ /\ io_failed' = TRUE
        /\ UNCHANGED file
  /\ Goto(r, "NonceReturn")
  /\ UNCHANGED <<app, counter, nonce_lock, issued, epoch, restarts,
                 interrupted, req, local, resp, other>>

guard_kept(r) == r

\* `};` after state.next_nonce(): the MutexGuard goes out of scope, the lock is free.
guard_dropped(r) == NoReq

\* next_nonce returns self.counter; the guard is dropped at the end of the block
NonceReturn(r) ==
  /\ pc[r] = "NonceReturn"
  /\ nonce_lock = r
  /\ local' = [local EXCEPT ![r].nonce = counter, ![r].entry = NoEntry]
  /\ issued' = Append(issued, [nonce |-> counter, by |-> r])
  /\ nonce_lock' = guard_dropped(r)
  /\ Goto(r, "Signing")
  /\ UNCHANGED <<app, counter, file, epoch, restarts, io_failed, interrupted,
                 req, resp, other>>

\* timestamp, preimage, keccak256, sign, and the Ok response
Signing(r) ==
  /\ pc[r] = "Signing"
  /\ \E timestamp \in Timestamps :
       LET msg == signing_preimage(req[r].tx, local[r].nonce, timestamp)
           sig == sign(app.signing_key, keccak256(msg))
       IN Return(r, "Signing",
                 VerifyResponse(Ok, TRUE, Some(sig), Some(local[r].nonce),
                                Some(timestamp), None))
  /\ UNCHANGED <<app, ledger, req, local, other>>

\* ------------------------------------------------------------------------
\* Process restart: the handlers in flight are lost with
\* their locals, main() loads the ledger
\* ------------------------------------------------------------------------
InFlight(r) == pc[r] \notin {"idle", "done", "dropped"}

Restart ==
  /\ restarts < MaxRestarts
  /\ restarts' = restarts + 1
  /\ counter' = NonceState_load(file)
  /\ nonce_lock' = NoReq
  /\ pc' = [r \in Reqs |-> IF InFlight(r) THEN "dropped" ELSE pc[r]]
  /\ req' = [r \in Reqs |-> IF InFlight(r) THEN NoRequest ELSE req[r]]
  /\ local' = [r \in Reqs |-> IF InFlight(r) THEN NoLocal ELSE local[r]]
  /\ trace' = [r \in Reqs |-> IF InFlight(r) THEN <<>> ELSE trace[r]]
  /\ epoch' = [loaded |-> NonceState_load(file), before |-> Len(issued),
               first |-> epoch.first]
  /\ interrupted' = (interrupted \/ nonce_lock # NoReq)
  /\ UNCHANGED <<app, file, issued, io_failed, resp, other>>

Next ==
  \/ \E r \in Reqs : ModelCheck(r)
  \/ \E r \in Reqs : HexDecode(r)
  \/ \E r \in Reqs : Deserialize(r)
  \/ \E r \in Reqs : IOComposition(r)
  \/ \E r \in Reqs : OutputPolicyCheck(r)
  \/ \E r \in Reqs : CryptographicVerification(r)
  \/ \E r \in Reqs : NonceLock(r)
  \/ \E r \in Reqs : NextNonce(r)
  \/ \E r \in Reqs : SaveCreate(r)
  \/ \E r \in Reqs : SaveWrite(r)
  \/ \E r \in Reqs : NonceReturn(r)
  \/ \E r \in Reqs : Signing(r)
  \/ Restart

Spec == Init /\ [][Next]_vars

\* ------------------------------------------------------------------------
\* ArgMaxSpec: the two arg-max selections on bounded outputs
\* ------------------------------------------------------------------------
FloatValues == {Num(0), Num(1), Num(2), NaN}

BoundedOutputs ==
  UNION {[1..n -> FloatValues] : n \in 1..MaxOutLen}

IsI32(output) == \A i \in 1..Len(output) : ~output[i].nan

ArgMaxInit ==
  /\ app = [model_hash |-> AuthoritativeHash,
            signing_key |-> "COSIGNER_PRIVATE_KEY",
            verifier_preprocessing |-> "pp(authorization.onnx)"]
  /\ file = FileAbsent
  /\ counter = 0
  /\ nonce_lock = NoReq
  /\ pc = [r \in Reqs |-> "idle"]
  /\ req = [r \in Reqs |-> NoRequest]
  /\ local = [r \in Reqs |-> NoLocal]
  /\ resp = [r \in Reqs |-> NoResponse]
  /\ trace = [r \in Reqs |-> <<>>]
  /\ issued = <<>>
  /\ epoch = [loaded |-> 0, before |-> 0, first |-> "absent"]
  /\ restarts = 0
  /\ io_failed = FALSE
  /\ interrupted = FALSE
  /\ \E o \in BoundedOutputs : am = [AmIdle EXCEPT !.output = o]
  /\ pre = PreIdle
  /\ pv = PvIdle
  /\ ns = NsIdle

\* the co-signer's selection over the i32 public output
CosignerArgMax ==
  /\ ~am.cosigner.some
  /\ IsI32(am.output)
  /\ am' = [am EXCEPT !.cosigner =
              Some(cosigner_pred_idx([i \in 1..Len(am.output) |-> am.output[i].v]))]
  /\ UNCHANGED <<app, ledger, pc, req, local, resp, trace, pre, pv, ns>>

\* the prover's selection over the model output
ProverArgMax ==
  /\ ~am.prover.some
  /\ am' = [am EXCEPT !.prover = Some(prover_pred_idx(am.output))]
  /\ UNCHANGED <<app, ledger, pc, req, local, resp, trace, pre, pv, ns>>

ArgMaxNext == CosignerArgMax \/ ProverArgMax

ArgMaxSpec == ArgMaxInit /\ [][ArgMaxNext]_vars

\* ------------------------------------------------------------------------
\* Properties
\* ------------------------------------------------------------------------
Started(r) == pc[r] \notin {"idle", "dropped"}

Done(r) == pc[r] = "done"

\* The handler holds or is about to hold a nonce, or is signing.
InNonceOrSigning(r) == pc[r] \in {"NonceLock", "NextNonce", "SaveCreate", "SaveWrite",
                                  "NonceReturn", "Signing"}

IssuedTo(r) == {i \in 1..Len(issued) : issued[i].by = r}

HexOk(q) == hex_decode(q.proof).ok
ProofOk(q) == HexOk(q) /\ deserialize_compressed(hex_decode(q.proof).bytes).ok
IOOk(q) == program_io_from_str(q.program_io).ok
OutputOf(q) == program_io_from_str(q.program_io).output

\* Some index other than 0 holds a value at least as large as the value at index 0.
LaterClassAtLeast(o) == \E i \in 2..Len(o) : o[i] >= o[1]

\* Index 0 holds the maximum of the output.
MaxAtIndex0(o) == \A i \in 1..Len(o) : o[i] <= o[1]

\* C1: a request whose proof and program_io decode and whose output's arg-max
\* index is not 0 never reaches nonce issuance or signing, holds no nonce, and
\* ends rejected with a reason (the denial reason when its model hash matches)
\* and without a signature.
C1_DeniedOutputNeverSigned ==
  \A r \in Reqs :
    (Started(r) /\ ProofOk(req[r]) /\ IOOk(req[r]) /\ OutputOf(req[r]) # <<>>
       /\ LaterClassAtLeast(OutputOf(req[r])))
    => /\ ~InNonceOrSigning(r)
       /\ local[r].nonce = 0
       /\ IssuedTo(r) = {}
       /\ Done(r) =>
            /\ ~resp[r].approved
            /\ ~resp[r].signature.some
            /\ ~resp[r].nonce.some
            /\ resp[r].reason.some
            /\ req[r].model_hash = app.model_hash =>
                 resp[r] = Rejection(Forbidden, "Model output is DENIED (class != 0)")

C1_Witness ==
  \E r \in Reqs :
    /\ Done(r) /\ ProofOk(req[r]) /\ IOOk(req[r])
    /\ OutputOf(req[r]) = <<0, 1>>
    /\ deserialize_compressed(hex_decode(req[r].proof).bytes).snark = "sound"
    /\ resp[r] = Rejection(Forbidden, "Model output is DENIED (class != 0)")

\* C2: a handler that holds a nonce, is signing, or returned an approved or
\* signed response has a request that passed every gate: matching model hash,
\* decodable proof, decodable program_io, non-empty output with the maximum at
\* index 0, and a proof the external verifier accepts.
C2_ApprovedOnlyIfEveryGatePassed ==
  \A r \in Reqs :
    (/\ Started(r)
     /\ \/ pc[r] \in {"NextNonce", "SaveCreate", "SaveWrite", "NonceReturn", "Signing"}
        \/ local[r].nonce # 0
        \/ IssuedTo(r) # {}
        \/ resp[r].approved
        \/ resp[r].signature.some
        \/ resp[r].nonce.some)
    => /\ req[r].model_hash = app.model_hash
       /\ ProofOk(req[r])
       /\ IOOk(req[r])
       /\ OutputOf(req[r]) # <<>>
       /\ MaxAtIndex0(OutputOf(req[r]))
       /\ deserialize_compressed(hex_decode(req[r].proof).bytes).snark = "sound"
       /\ app.verifier_preprocessing = "pp(authorization.onnx)"

C2_Witness ==
  \E r \in Reqs :
    /\ Done(r) /\ resp[r].approved /\ resp[r].signature.some
    /\ resp[r].nonce = Some(local[r].nonce)
    /\ IssuedTo(r) # {}

\* C3: a request whose model_hash differs from the authoritative hash is
\* rejected by the model check alone: no other step has run, nothing was
\* decoded, and no nonce was issued to it.
C3_MismatchRejectedBeforeDecoding ==
  \A r \in Reqs :
    (Started(r) /\ req[r].model_hash # app.model_hash)
    => /\ Done(r)
       /\ trace[r] = <<"ModelCheck">>
       /\ local[r] = NoLocal
       /\ IssuedTo(r) = {}
       /\ resp[r] = Rejection(resp[r].status, "Model hash mismatch")

C3_Witness ==
  \E r \in Reqs :
    /\ Done(r) /\ req[r].model_hash = OtherHash
    /\ ProofOk(req[r]) /\ IOOk(req[r])
    /\ trace[r] = <<"ModelCheck">>

\* The nonces issued since the last load of the ledger, in order of issuance.
EpochIssued == SubSeq(issued, epoch.before + 1, Len(issued))

\* C4: the nonces issued by the running process, whatever the interleaving of
\* its handlers, are c+1, c+2, ... for the counter c it loaded: pairwise
\* distinct, no gaps, and each handler's nonce is one of them.
C4_ConcurrentNoncesDistinct ==
  /\ \A i \in 1..Len(EpochIssued) : EpochIssued[i].nonce = epoch.loaded + i
  /\ \A i, j \in 1..Len(EpochIssued) :
       i # j => /\ EpochIssued[i].nonce # EpochIssued[j].nonce
                /\ EpochIssued[i].by # EpochIssued[j].by
  /\ \A r \in Reqs :
       local[r].nonce # 0 =>
         \E i \in 1..Len(issued) : issued[i] = [nonce |-> local[r].nonce, by |-> r]

\* Two handlers were in nonce issuance together: one waited for the lock the
\* other held, and both now hold their nonces.
C4_Witness ==
  \E r1, r2 \in Reqs :
    /\ r1 # r2
    /\ pc[r1] = "Signing" /\ pc[r2] = "Signing"
    /\ local[r1].nonce = epoch.loaded + 1
    /\ local[r2].nonce = epoch.loaded + 2

\* C5: from a location with no prior state, while every save succeeds and no
\* restart cuts a next_nonce call short, the issued nonces are 1, 2, ..., N and
\* a load after k issuances returns k.
C5_SequentialNoncesAndReload ==
  (epoch.first = "absent" /\ ~io_failed /\ ~interrupted)
  => /\ \A i \in 1..Len(issued) : issued[i].nonce = i
     /\ epoch.loaded = epoch.before
     /\ nonce_lock = NoReq =>
          /\ counter = Len(issued)
          /\ IF issued = <<>> THEN file.kind = "absent"
             ELSE file = [kind |-> "json", counter |-> Len(issued)]

C5_Witness ==
  /\ epoch.first = "absent" /\ ~io_failed /\ ~interrupted
  /\ restarts = 1
  /\ epoch.before = 1 /\ epoch.loaded = 1
  /\ Len(issued) = 2 /\ issued[2].nonce = 2

\* C6 as claimed: over the whole lifetime of the ledger, restarts included, no
\* nonce value is issued twice.
C6_NoNonceIssuedTwice ==
  \A i, j \in 1..Len(issued) : i # j => issued[i].nonce # issued[j].nonce

\* The first index that holds the maximum, 0-based.
FirstMaxIndex(o) ==
  (CHOOSE i \in 1..Len(o) :
     /\ \A j \in 1..Len(o) : o[j].v <= o[i].v
     /\ \A j \in 1..(i - 1) : o[j].v < o[i].v) - 1

\* C7 as claimed: on an output of numbers, both selections return the first
\* index that holds the maximum.
C7_TiesSelectFirstOccurrence ==
  IsI32(am.output) =>
    /\ am.cosigner.some => am.cosigner.v = FirstMaxIndex(am.output)
    /\ am.prover.some => am.prover.v = FirstMaxIndex(am.output)

\* The steps of verify_proof in their order.
Pipeline ==
  <<"ModelCheck", "HexDecode", "Deserialize", "IOComposition", "OutputPolicyCheck",
    "CryptographicVerification", "NonceIssuance", "Signing">>

IsPrefix(t, u) == Len(t) <= Len(u) /\ \A i \in 1..Len(t) : t[i] = u[i]

\* C8: every response is one of the two shapes: approved with signature, nonce
\* and timestamp and no reason, exactly when the handler ran through Signing;
\* or not approved with a reason and none of the three.
C8_ResponseShape ==
  \A r \in Reqs :
    /\ resp[r] # NoResponse <=> Done(r)
    /\ Done(r) =>
         /\ resp[r].approved <=> trace[r] = Pipeline
         /\ \/ /\ resp[r].approved
               /\ resp[r].signature.some /\ resp[r].nonce.some /\ resp[r].timestamp.some
               /\ ~resp[r].reason.some
            \/ /\ ~resp[r].approved
               /\ resp[r].reason.some
               /\ ~resp[r].signature.some /\ ~resp[r].nonce.some
               /\ ~resp[r].timestamp.some

C8_Witness ==
  \E r1, r2 \in Reqs :
    /\ Done(r1) /\ resp[r1].approved /\ resp[r1].nonce.some
    /\ Done(r2) /\ ~resp[r2].approved /\ resp[r2].reason.some

\* Whether a gate of the pipeline fails on a request.
GateFails(q, gate) ==
  CASE gate = "ModelCheck" -> q.model_hash # AuthoritativeHash
    [] gate = "HexDecode" -> ~HexOk(q)
    [] gate = "Deserialize" -> ~ProofOk(q)
    [] gate = "IOComposition" -> ~IOOk(q)
    [] gate = "OutputPolicyCheck" ->
         OutputOf(q) = <<>> \/ LaterClassAtLeast(OutputOf(q))
    [] gate = "CryptographicVerification" ->
         deserialize_compressed(hex_decode(q.proof).bytes).snark # "sound"
    [] OTHER -> FALSE

GateReason(q, gate) ==
  CASE gate = "ModelCheck" -> "Model hash mismatch"
    [] gate = "HexDecode" -> "Invalid proof hex"
    [] gate = "Deserialize" -> "Failed to deserialize proof"
    [] gate = "IOComposition" -> "Failed to deserialize program_io"
    [] gate = "OutputPolicyCheck" ->
         IF OutputOf(q) = <<>> THEN "Empty model output"
         ELSE "Model output is DENIED (class != 0)"
    [] gate = "CryptographicVerification" -> "Proof verification failed"
    [] OTHER -> ""

Rejected(r) == Done(r) /\ ~resp[r].approved

FailedGate(r) == trace[r][Len(trace[r])]

InputGates == {"HexDecode", "Deserialize", "IOComposition"}

PolicyGates == {"ModelCheck", "OutputPolicyCheck", "CryptographicVerification"}

\* C9 as claimed: a rejection by an input gate is a bad request (400), a
\* rejection by a policy gate, the model check included, is forbidden (403).
C9_PolicyRejectionsForbidden ==
  \A r \in Reqs :
    Rejected(r) =>
      /\ FailedGate(r) \in InputGates => resp[r].status = 400
      /\ FailedGate(r) \in PolicyGates => resp[r].status = 403

\* C9 amended: a rejection by an input gate or by the model check is a bad
\* request (400); a rejection by the output policy check or by the proof
\* verification is forbidden (403).
C9_RejectionClassification ==
  \A r \in Reqs :
    Rejected(r) =>
      /\ FailedGate(r) \in InputGates \cup PolicyGates
      /\ GateFails(req[r], FailedGate(r))
      /\ FailedGate(r) \in InputGates \cup {"ModelCheck"} => resp[r].status = 400
      /\ FailedGate(r) \in PolicyGates \ {"ModelCheck"} => resp[r].status = 403

C9_Witness ==
  \E r1, r2 \in Reqs :
    /\ Rejected(r1) /\ FailedGate(r1) = "ModelCheck" /\ resp[r1].status = 400
    /\ Rejected(r2) /\ FailedGate(r2) = "CryptographicVerification"
    /\ resp[r2].status = 403

PassedFirst(q, k) == \A i \in 1..k : ~GateFails(q, Pipeline[i])

\* C10: the steps a handler has run are an initial part of the pipeline, in
\* order and once each; a step has run only if every earlier step passed; a
\* rejected handler stopped at the first failing gate with that gate's reason;
\* an approved handler ran the whole pipeline.
C10_StrictlyOrderedGates ==
  \A r \in Reqs :
    Started(r) =>
      /\ IsPrefix(trace[r], Pipeline)
      /\ Len(trace[r]) >= 1
      /\ PassedFirst(req[r], Len(trace[r]) - 1)
      /\ ~Done(r) => PassedFirst(req[r], Len(trace[r]))
      /\ Rejected(r) =>
           /\ GateFails(req[r], FailedGate(r))
           /\ resp[r].reason = Some(GateReason(req[r], FailedGate(r)))
      /\ (Done(r) /\ resp[r].approved) => trace[r] = Pipeline
      /\ "CryptographicVerification" \in {trace[r][i] : i \in 1..Len(trace[r])} =>
           ~GateFails(req[r], "OutputPolicyCheck")

\* A proof the verifier would accept is rejected by the output policy check
\* before the verifier is called, and another handler ran the whole pipeline.
C10_Witness ==
  \E r1, r2 \in Reqs :
    /\ Rejected(r1)
    /\ trace[r1] = SubSeq(Pipeline, 1, 5)
    /\ ~GateFails(req[r1], "CryptographicVerification")
    /\ Done(r2) /\ trace[r2] = Pipeline

\* The statements of the block that holds the MutexGuard: next_nonce and save.
InCriticalSection(r) == pc[r] \in {"NextNonce", "SaveCreate", "SaveWrite", "NonceReturn"}

\* C11: the ledger lock is held exactly by a handler that is inside next_nonce
\* (increment and save): never during decoding, the output policy check, the
\* cryptographic verification or signing; so a handler in verification never
\* keeps another handler from taking the lock.
C11_LockOnlyAroundNextNonce ==
  /\ \A r \in Reqs : nonce_lock = r <=> InCriticalSection(r)
  /\ nonce_lock \in Reqs \cup {NoReq}
  /\ \A r1, r2 \in Reqs :
       (pc[r1] = "CryptographicVerification" /\ pc[r2] = "NonceLock"
          /\ \A r3 \in Reqs : ~InCriticalSection(r3))
       => nonce_lock = NoReq

\* Two handlers are in cryptographic verification at the same time while a
\* nonce has already been issued to nobody: neither holds the lock.
C11_Witness ==
  \E r1, r2 \in Reqs :
    /\ r1 # r2
    /\ pc[r1] = "CryptographicVerification"
    /\ pc[r2] = "CryptographicVerification"
    /\ nonce_lock = NoReq

\* ------------------------------------------------------------------------
\* PreimageSpec: the signing preimage on bounded payloads
\* ------------------------------------------------------------------------
MaxFieldLen == 2

FieldChars == {"a", "b"}

FieldStrings == UNION {[1..n -> FieldChars] : n \in 0..MaxFieldLen}

PreimageNonces == {1, 2, 257, 65537}

\* What verify_proof signs over: req.tx, the nonce and the timestamp.
Payloads ==
  [to : FieldStrings, amount : FieldStrings, token : FieldStrings,
   nonce : PreimageNonces, timestamp : Timestamps]

\* The co-signer's service state when no request has been received.
CosignerAtRest ==
  /\ app = [model_hash |-> AuthoritativeHash,
            signing_key |-> "COSIGNER_PRIVATE_KEY",
            verifier_preprocessing |-> "pp(authorization.onnx)"]
  /\ file = FileAbsent
  /\ counter = 0
  /\ nonce_lock = NoReq
  /\ pc = [r \in Reqs |-> "idle"]
  /\ req = [r \in Reqs |-> NoRequest]
  /\ local = [r \in Reqs |-> NoLocal]
  /\ resp = [r \in Reqs |-> NoResponse]
  /\ trace = [r \in Reqs |-> <<>>]
  /\ issued = <<>>
  /\ epoch = [loaded |-> 0, before |-> 0, first |-> "absent"]
  /\ restarts = 0
  /\ io_failed = FALSE
  /\ interrupted = FALSE

PreimageInit ==
  /\ CosignerAtRest
  /\ am = AmIdle
  /\ pv = PvIdle
  /\ ns = NsIdle
  /\ \E p \in Payloads : pre = [PreIdle EXCEPT !.input = Some(p)]

PreimageOf(p) ==
  signing_preimage([to |-> p.to, amount |-> p.amount, token |-> p.token],
                   p.nonce, p.timestamp)

\* Byte k (0 = least significant) of an unsigned value.
ByteOf(n, k) == (n \div (256 ^ k)) % 256

DifferInOneByte(m, n) == Cardinality({k \in 0..3 : ByteOf(m, k) # ByteOf(n, k)}) = 1

\* The payloads that differ from p in a single byte of a single field.
OneByteChanges(p) ==
  {[p EXCEPT ![f] = [p[f] EXCEPT ![i] = c]] :
     <<f, i, c>> \in {x \in {"to", "amount", "token"} \X (1..MaxFieldLen) \X FieldChars :
                        x[2] <= Len(p[x[1]]) /\ x[3] # p[x[1]][x[2]]}}
  \cup {[p EXCEPT !.nonce = n] : n \in {m \in PreimageNonces : DifferInOneByte(m, p.nonce)}}
  \cup {[p EXCEPT !.timestamp = t] : t \in {u \in Timestamps : DifferInOneByte(u, p.timestamp)}}

\* let mut msg = Vec::new(); msg.extend_from_slice(..) x 5
BuildPreimage ==
  /\ pre.input.some
  /\ ~pre.msg.some
  /\ pre' = [pre EXCEPT !.msg = Some(PreimageOf(pre.input.v))]
  /\ UNCHANGED <<app, ledger, pc, req, local, resp, trace, am, pv, ns>>

\* the same construction for a payload one byte away from the first
BuildChangedPreimage ==
  /\ pre.msg.some
  /\ ~pre.changed.some
  /\ \E q \in OneByteChanges(pre.input.v) :
       pre' = [pre EXCEPT !.changed = Some(q), !.changed_msg = Some(PreimageOf(q))]
  /\ UNCHANGED <<app, ledger, pc, req, local, resp, trace, am, pv, ns>>

PreimageNext == BuildPreimage \/ BuildChangedPreimage

PreimageSpec == PreimageInit /\ [][PreimageNext]_vars

RECURSIVE BigEndianValue(_)
BigEndianValue(bytes) ==
  IF bytes = <<>> THEN 0
  ELSE 256 * BigEndianValue(SubSeq(bytes, 1, Len(bytes) - 1)) + bytes[Len(bytes)]

\* m is to ++ amount ++ token ++ nonce (8 bytes, big-endian) ++ timestamp
\* (8 bytes, big-endian) of payload p.
IsOrderedConcatenation(m, p) ==
  LET a == Len(p.to)
      b == a + Len(p.amount)
      c == b + Len(p.token)
  IN /\ Len(m) = c + 16
     /\ \A i \in 1..Len(m) : m[i] \in 0..255
     /\ \A i \in 1..Len(p.to) : m[i] = Utf8[p.to[i]]
     /\ \A i \in 1..Len(p.amount) : m[a + i] = Utf8[p.amount[i]]
     /\ \A i \in 1..Len(p.token) : m[b + i] = Utf8[p.token[i]]
     /\ BigEndianValue(SubSeq(m, c + 1, c + 8)) = p.nonce
     /\ BigEndianValue(SubSeq(m, c + 9, c + 16)) = p.timestamp

\* C12: the preimage is to ++ amount ++ token ++ nonce (8 bytes big-endian) ++
\* timestamp (8 bytes big-endian) in that order, it is determined by the five
\* inputs, and a payload that differs in a single byte of a single field has a
\* different preimage.
C12_PreimageIsOrderedConcatenation ==
  /\ pre.msg.some => IsOrderedConcatenation(pre.msg.v, pre.input.v)
  /\ pre.changed_msg.some =>
       /\ IsOrderedConcatenation(pre.changed_msg.v, pre.changed.v)
       /\ pre.changed_msg.v # pre.msg.v
       /\ keccak256(pre.changed_msg.v) # keccak256(pre.msg.v)

\* A payload with three non-empty text fields whose amount was changed in one
\* byte: both preimages have been built.
C12_Witness ==
  /\ pre.changed_msg.some
  /\ pre.input.v.to # <<>> /\ pre.input.v.token # <<>>
  /\ pre.input.v.to # pre.input.v.amount
  /\ pre.changed.v.amount # pre.input.v.amount

\* ------------------------------------------------------------------------
\* The prover (src/prover/src/main.rs): pure functions
\* ------------------------------------------------------------------------
\* the order of feature_values in build_input_vector and of checks in
\* validate_features
FeatureNames == <<"budget", "trust", "amount", "category", "velocity", "day", "time">>

\* the third column of checks in validate_features
FeatureMax ==
  [budget |-> 15, trust |-> 7, amount |-> 15, category |-> 3, velocity |-> 7,
   day |-> 7, time |-> 3]

\* vec![0; 64]
VecLen == 64

\* 1 << 7
Activation == 2 ^ 7

feature_key_unseparated(feature_type, value) == feature_type \o ToString(value)

\* format!("{feature_type}_{value}")
feature_key(feature_type, value) == feature_type \o "_" \o ToString(value)

\* The for loop of build_input_vector from feature k on; index i of the
\* source is position i + 1 here.
RECURSIVE build_input_loop(_, _, _, _)
build_input_loop(vec, k, features, vocab) ==
  IF k > Len(FeatureNames) THEN vec
  ELSE LET key == feature_key(FeatureNames[k], features[FeatureNames[k]])
           next == IF key \in DOMAIN vocab
                   THEN IF vocab[key] < VecLen
                        THEN [vec EXCEPT ![vocab[key] + 1] = Activation]
                        ELSE vec
                   ELSE vec
       IN build_input_loop(next, k + 1, features, vocab)

build_input_vector(features, vocab) ==
  build_input_loop([i \in 1..VecLen |-> 0], 1, features, vocab)

out_of_range_or_at_bound(val, max) == val >= max

\* if val > max
out_of_range(val, max) == val > max

ValidationOk == [ok |-> TRUE, err |-> ""]

\* Err(format!("Feature '{name}' value {val} out of range (0..={max})"))
ValidationError(name, val, max) ==
  [ok |-> FALSE,
   err |-> "Feature '" \o name \o "' value " \o ToString(val)
             \o " out of range (0..=" \o ToString(max) \o ")"]

\* The for loop of validate_features from check k on.
RECURSIVE validate_loop(_, _)
validate_loop(features, k) ==
  IF k > Len(FeatureNames) THEN ValidationOk
  ELSE LET name == FeatureNames[k]
       IN IF out_of_range(features[name], FeatureMax[name])
          THEN ValidationError(name, features[name], FeatureMax[name])
          ELSE validate_loop(features, k + 1)

validate_features(features) == validate_loop(features, 1)

\* load_vocab: the entries of "vocab_mapping" that carry a u64 "index"; a
\* document without "vocab_mapping" gives the empty vocabulary.
load_vocab(doc) ==
  IF doc.json # "ok" THEN [ok |-> FALSE, vocab |-> <<>>]
  ELSE [ok |-> TRUE,
        vocab |-> [key \in {x \in DOMAIN doc.vocab_mapping : doc.vocab_mapping[x].some}
                     |-> doc.vocab_mapping[key].v]]

decision_of_low_index(pred_idx) == IF pred_idx <= 1 THEN "AUTHORIZED" ELSE "DENIED"

\* let decision = if pred_idx == 0 { "AUTHORIZED" } else { "DENIED" };
decision_of(pred_idx) == IF pred_idx = 0 THEN "AUTHORIZED" ELSE "DENIED"

HexChars == <<"0", "1", "2", "3", "4", "5", "6", "7", "8", "9", "a", "b", "c", "d", "e", "f">>

\* hex::encode: two lower-case digits per byte
hex_encode(bytes) ==
  [i \in 1..(2 * Len(bytes)) |->
     IF i % 2 = 1 THEN HexChars[(bytes[(i + 1) \div 2] \div 16) + 1]
     ELSE HexChars[(bytes[i \div 2] % 16) + 1]]

\* snark.serialize_compressed: the blob that deserialize_compressed reads back
serialize_compressed(snark) ==
  IF snark = "sound" THEN <<160>> ELSE IF snark = "unsound" THEN <<161>> ELSE <<0>>

\* String::new() in the program_io field of a ProverOutput
EmptyDocument == [json |-> "empty", output |-> <<>>]

ProverOutput(proof, program_io, decision, model_hash) ==
  [proof |-> proof, program_io |-> program_io, decision |-> decision,
   model_hash |-> model_hash]

\* ------------------------------------------------------------------------
\* ProverSpec: one run of the prover's main()
\* ------------------------------------------------------------------------
MaxVocab == 2       \* most entries of a vocab_mapping

\* every feature at 0, at its bound and one above its bound
FeatureInputs ==
  [budget : {0, 15, 16}, trust : {0, 7, 8}, amount : {0, 15, 16},
   category : {0, 3, 4}, velocity : {0, 7, 8}, day : {0, 7, 8}, time : {0, 3, 4}]

ZeroFeatures == [n \in {FeatureNames[k] : k \in 1..Len(FeatureNames)} |-> 0]

\* args[1]: a JSON document of InputFeatures, or text that is not one
MalformedArgs == [json |-> "bad", features |-> ZeroFeatures]

ProverArgs == {MalformedArgs} \cup {[json |-> "ok", features |-> f] : f \in FeatureInputs}

\* serde_json::from_str::<InputFeatures>(&args[1])
features_from_str(args) ==
  IF args.json = "ok" THEN [ok |-> TRUE, features |-> args.features]
  ELSE [ok |-> FALSE, features |-> ZeroFeatures]

\* keys that appear in vocab.json; "budget15" is no composed key
VocabKeys == {"budget_0", "trust_7", "time_3", "budget15"}

\* an entry's "index": a u64, or no u64 at all
IndexEntries == {Some(0), Some(63), Some(64), None}

\* vocab.json: absent, not JSON, or a document with a vocab_mapping
VocabFiles ==
  {[json |-> "absent", vocab_mapping |-> <<>>], [json |-> "bad", vocab_mapping |-> <<>>]}
  \cup {[json |-> "ok", vocab_mapping |-> m] :
          m \in UNION {[K -> IndexEntries] :
                         K \in {S \in SUBSET VocabKeys : Cardinality(S) <= MaxVocab}}}

\* result.outputs[0] of the forward pass
ModelOutputs ==
  {<<>>, <<Num(2), Num(1)>>, <<Num(1), Num(2)>>, <<Num(1), Num(1)>>,
   <<Num(0), Num(0), Num(1)>>}

ProverStart(args) ==
  [pc |-> "parse", args |-> args, features |-> ZeroFeatures, model_hash |-> "",
   vocab |-> <<>>, input_vector |-> <<>>, output |-> <<>>, pred_idx |-> 0,
   decision |-> "", preprocessing |-> "", snark |-> "", program_io |-> <<>>,
   stdout |-> <<>>, exit |-> "", calls |-> <<>>]

ProverInit ==
  /\ CosignerAtRest
  /\ am = AmIdle
  /\ pre = PreIdle
  /\ ns = NsIdle
  /\ \E a \in ProverArgs : pv = ProverStart(a)

ProverFrame == UNCHANGED <<app, ledger, pc, req, local, resp, trace, am, pre, ns>>

\* `?` on an Err, and `return Ok(())`: main returns
Exit(state, result) == [state EXCEPT !.pc = "exit", !.exit = result]

Called(state, name) == [state EXCEPT !.calls = Append(state.calls, name)]

\* let features: InputFeatures = serde_json::from_str(&args[1])?;
ParseArgs ==
  /\ pv.pc = "parse"
  /\ LET r == features_from_str(pv.args)
     IN pv' = IF r.ok
              THEN [pv EXCEPT !.pc = "validate_features", !.features = r.features]
              ELSE Exit(pv, "Err: invalid features JSON")
  /\ ProverFrame

Validate_unchecked ==
  /\ pv.pc = "validate_features"
  /\ pv' = [Called(pv, "validate_features") EXCEPT !.pc = "sha256_file"]
  /\ ProverFrame

\* validate_features(&features)?;
Validate ==
  /\ pv.pc = "validate_features"
  /\ LET r == validate_features(pv.features)
     IN pv' = IF r.ok
              THEN [Called(pv, "validate_features") EXCEPT !.pc = "sha256_file"]
              ELSE Exit(Called(pv, "validate_features"), r.err)
  /\ ProverFrame

\* let model_hash = sha256_file(&model_path)?;
HashModel ==
  /\ pv.pc = "sha256_file"
  /\ \E readable \in BOOLEAN :
       pv' = IF readable
             THEN [Called(pv, "sha256_file") EXCEPT
                     !.pc = "load_vocab", !.model_hash = AuthoritativeHash]
             ELSE Exit(Called(pv, "sha256_file"), "Err: model file")
  /\ ProverFrame

\* let vocab = load_vocab(&vocab_path)?;
LoadVocab ==
  /\ pv.pc = "load_vocab"
  /\ \E doc \in VocabFiles :
       LET r == load_vocab(doc)
       IN pv' = IF r.ok
                THEN [Called(pv, "load_vocab") EXCEPT
                        !.pc = "build_input_vector", !.vocab = r.vocab]
                ELSE Exit(Called(pv, "load_vocab"), "Err: vocab file")
  /\ ProverFrame

\* let input_vector = build_input_vector(&features, &vocab); Tensor::new
BuildInputVector ==
  /\ pv.pc = "build_input_vector"
  /\ pv' = [Called(pv, "build_input_vector") EXCEPT
              !.pc = "forward",
              !.input_vector = build_input_vector(pv.features, pv.vocab)]
  /\ ProverFrame

\* model_instance.forward(&[input.clone()])?; result.outputs[0]
Forward ==
  /\ pv.pc = "forward"
  /\ \/ \E o \in ModelOutputs :
          pv' = [Called(pv, "forward") EXCEPT !.pc = "pre_check", !.output = o]
     \/ pv' = Exit(Called(pv, "forward"), "Model forward pass failed")
  /\ ProverFrame

\* the local pre-check: max_by .. ok_or("Empty model output")?, then decision
PreCheck ==
  /\ pv.pc = "pre_check"
  /\ pv' = IF pv.output = <<>> THEN Exit(pv, "Empty model output")
           ELSE LET pred_idx == prover_pred_idx(pv.output)
                    decision == decision_of(pred_idx)
                IN [pv EXCEPT !.pred_idx = pred_idx, !.decision = decision,
                              !.pc = IF decision = "DENIED" THEN "emit_denied"
                                     ELSE "prover_preprocess"]
  /\ ProverFrame

\* if decision == "DENIED" { println!(..); return Ok(()); }
EmitDenied ==
  /\ pv.pc = "emit_denied"
  /\ pv' = Exit([pv EXCEPT !.stdout =
                   Append(pv.stdout,
                          ProverOutput(<<>>, EmptyDocument, "DENIED", pv.model_hash))],
                "Ok")
  /\ ProverFrame

\* JoltSNARK::prover_preprocess(model_fn, JOLT_TABLE_SIZE)
Preprocess ==
  /\ pv.pc = "prover_preprocess"
  /\ pv' = [Called(pv, "prover_preprocess") EXCEPT
              !.pc = "prove", !.preprocessing = "pk(authorization.onnx)"]
  /\ ProverFrame

\* let (snark, program_io, _) = JoltSNARK::prove(&preprocessing, model_fn, &input);
Prove ==
  /\ pv.pc = "prove"
  /\ \E o \in Outputs \ {<<>>} :
       pv' = [Called(pv, "prove") EXCEPT
                !.pc = "emit_authorized", !.snark = "sound", !.program_io = o]
  /\ ProverFrame

\* serialize_compressed, hex::encode, serde_json::to_string(&program_io),
\* println!(..); Ok(())
EmitAuthorized ==
  /\ pv.pc = "emit_authorized"
  /\ pv' = Exit([pv EXCEPT !.stdout =
                   Append(pv.stdout,
                          ProverOutput(hex_encode(serialize_compressed(pv.snark)),
                                       IODoc(pv.program_io), "AUTHORIZED",
                                       pv.model_hash))],
                "Ok")
  /\ ProverFrame

ProverNext ==
  \/ ParseArgs
  \/ Validate
  \/ HashModel
  \/ LoadVocab
  \/ BuildInputVector
  \/ Forward
  \/ PreCheck
  \/ EmitDenied
  \/ Preprocess
  \/ Prove
  \/ EmitAuthorized

ProverSpec == ProverInit /\ [][ProverNext]_vars

\* main() is one sequential program: it keeps taking its next statement.
ProverFairSpec == ProverSpec /\ WF_vars(ProverNext)

\* ------------------------------------------------------------------------
\* Properties of the prover
\* ------------------------------------------------------------------------
HasCalled(name) == \E i \in 1..Len(pv.calls) : pv.calls[i] = name

\* The keys "{featureName}_{value}" of the seven features of a run.
ComposedKeys(features) ==
  {"budget_" \o ToString(features.budget), "trust_" \o ToString(features.trust),
   "amount_" \o ToString(features.amount), "category_" \o ToString(features.category),
   "velocity_" \o ToString(features.velocity), "day_" \o ToString(features.day),
   "time_" \o ToString(features.time)}

Activated(features, vocab, i) ==
  \E key \in ComposedKeys(features) : key \in DOMAIN vocab /\ vocab[key] = i

\* C13: the input vector has length 64; position i holds 128 iff a composed
\* key of a feature is in the vocabulary with index i < 64, and 0 otherwise; so
\* every entry is 0 or 128, at most 7 are non-zero, absent keys and indices
\* >= 64 activate nothing and raise no error, and the empty vocabulary gives the
\* zero vector.
C13_InputVectorEncoding ==
  /\ pv.pc = "exit" /\ pv.calls # <<>> => pv.calls[Len(pv.calls)] # "build_input_vector"
  /\ pv.pc = "forward" =>
    /\ Len(pv.input_vector) = 64
    /\ \A i \in 0..63 :
         pv.input_vector[i + 1] =
           IF Activated(pv.features, pv.vocab, i) THEN 128 ELSE 0
    /\ \A i \in 1..64 : pv.input_vector[i] \in {0, 128}
    /\ Cardinality({i \in 1..64 : pv.input_vector[i] # 0}) <= 7
    /\ DOMAIN pv.vocab = {} => \A i \in 1..64 : pv.input_vector[i] = 0

\* The vocabulary maps budget_0 to 63 and trust_7 to 64 and the features are
\* budget 0, trust 7: the vector is built, only position 63 is active.
C13_Witness ==
  /\ pv.pc = "forward"
  /\ pv.features.budget = 0 /\ pv.features.trust = 7
  /\ DOMAIN pv.vocab = {"budget_0", "trust_7"}
  /\ pv.vocab["budget_0"] = 63 /\ pv.vocab["trust_7"] = 64
  /\ pv.input_vector[64] = 128

\* the bounds of the seven features, in the order of the checks
ClaimedBounds ==
  <<[name |-> "budget", max |-> 15], [name |-> "trust", max |-> 7],
    [name |-> "amount", max |-> 15], [name |-> "category", max |-> 3],
    [name |-> "velocity", max |-> 7], [name |-> "day", max |-> 7],
    [name |-> "time", max |-> 3]>>

Violates(features, k) == features[ClaimedBounds[k].name] > ClaimedBounds[k].max

AllWithinBounds(features) == \A k \in 1..7 : ~Violates(features, k)

FirstViolation(features) ==
  CHOOSE k \in 1..7 : Violates(features, k) /\ \A j \in 1..(k - 1) : ~Violates(features, j)

\* the error that names feature k, its value and its allowed range
RangeErrorFor(features, k) ==
  "Feature '" \o ClaimedBounds[k].name \o "' value "
    \o ToString(features[ClaimedBounds[k].name])
    \o " out of range (0..=" \o ToString(ClaimedBounds[k].max) \o ")"

ValidationFailed == pv.pc = "exit" /\ pv.calls = <<"validate_features">>

\* C14: validate_features succeeds iff all seven values are within their
\* inclusive bounds (the bound passes, bound + 1 fails); on failure the error
\* names the first violating feature in the order of the checks, with its value
\* and its allowed range.
C14_ValidationBounds ==
  HasCalled("validate_features") =>
    IF AllWithinBounds(pv.features) THEN ~ValidationFailed
    ELSE /\ ValidationFailed
         /\ pv.exit = RangeErrorFor(pv.features, FirstViolation(pv.features))

\* budget is at its bound, trust and time are one above theirs: the error
\* names trust.
C14_Witness ==
  /\ ValidationFailed
  /\ pv.features.budget = 15 /\ pv.features.trust = 8 /\ pv.features.time = 4
  /\ pv.exit = "Feature 'trust' value 8 out of range (0..=7)"

DeniedRecord(hash) ==
  [proof |-> <<>>, program_io |-> EmptyDocument, decision |-> "DENIED", model_hash |-> hash]

\* C15: the decision is AUTHORIZED iff the pre-check selected index 0; a DENIED
\* decision emits {proof: "", program_io: "", decision: "DENIED", model_hash}
\* and neither preprocessing nor proof generation is invoked; an AUTHORIZED
\* record is emitted only after proof generation and carries its proof and its
\* public I/O.
C15_DecisionAndRecord ==
  /\ pv.decision # "" =>
       /\ pv.decision = "AUTHORIZED" <=> pv.pred_idx = 0
       /\ pv.decision = "DENIED" <=> pv.pred_idx # 0
  /\ pv.decision = "DENIED" =>
       /\ ~HasCalled("prover_preprocess") /\ ~HasCalled("prove")
       /\ pv.pc \in {"emit_denied", "exit"}
       /\ pv.pc = "exit" => pv.stdout = <<DeniedRecord(pv.model_hash)>> /\ pv.exit = "Ok"
  /\ Len(pv.stdout) <= 1
  /\ \A i \in 1..Len(pv.stdout) :
       /\ pv.stdout[i].decision = pv.decision
       /\ pv.stdout[i].model_hash = pv.model_hash /\ pv.model_hash # ""
       /\ pv.stdout[i].decision = "AUTHORIZED" =>
            /\ HasCalled("prove") /\ HasCalled("prover_preprocess")
            /\ hex_decode(pv.stdout[i].proof).ok
            /\ deserialize_compressed(hex_decode(pv.stdout[i].proof).bytes) =
                 [ok |-> TRUE, snark |-> pv.snark]
            /\ program_io_from_str(pv.stdout[i].program_io) =
                 [ok |-> TRUE, output |-> pv.program_io]

\* The pre-check selected index 2 of a three-class output: the run ended with
\* the DENIED record and without a proof.
C15_Witness ==
  /\ pv.pc = "exit"
  /\ pv.pred_idx = 2
  /\ pv.stdout = <<DeniedRecord(AuthoritativeHash)>>
  /\ pv.snark = ""

OutOfRangeInput == pv.args.json = "ok" /\ ~AllWithinBounds(pv.args.features)

\* C16: with an out-of-range feature value the run ends with the validation
\* error; the vocabulary load, build_input_vector, the forward evaluation and
\* proof generation are never reached and no record is emitted.
C16_ValidationBeforeEncoding ==
  /\ [](OutOfRangeInput =>
          /\ \A name \in {"sha256_file", "load_vocab", "build_input_vector", "forward",
                          "prover_preprocess", "prove"} : ~HasCalled(name)
          /\ pv.pc \in {"parse", "validate_features", "exit"}
          /\ pv.input_vector = <<>> /\ pv.vocab = <<>> /\ pv.output = <<>>
          /\ pv.stdout = <<>>
          /\ pv.pc = "exit" =>
               pv.exit = RangeErrorFor(pv.args.features, FirstViolation(pv.args.features)))
  /\ (OutOfRangeInput ~> (pv.pc = "exit" /\ pv.stdout = <<>>))

\* A run whose only out-of-range feature is the last one checked has ended.
C16_Witness ==
  /\ OutOfRangeInput
  /\ pv.args.features.time = 4
  /\ \A k \in 1..6 : ~Violates(pv.args.features, k)
  /\ pv.pc = "exit"
  /\ pv.exit = "Feature 'time' value 4 out of range (0..=3)"

\* ------------------------------------------------------------------------
\* Properties of the nonce ledger
\* ------------------------------------------------------------------------
\* C17: NonceState::load gives counter 0 when the backing file is absent,
\* unreadable or not a ledger document, and the stored counter otherwise; it
\* never fails and never modifies the backing file.  load runs at startup and
\* at every restart.
C17_LoadDefaultsToZero ==
  /\ counter = (IF file.kind = "json" THEN file.counter ELSE 0)
  /\ [][restarts' # restarts =>
          /\ file' = file
          /\ file.kind \in {"absent", "corrupt"} => counter' = 0
          /\ file.kind = "json" => counter' = file.counter]_vars

\* The process restarted over a file left truncated by an unfinished save after
\* a nonce had been issued: the loaded counter is 0.
C17_Witness ==
  /\ restarts = 1
  /\ file.kind = "corrupt"
  /\ epoch.first # "corrupt"
  /\ epoch.before >= 1
  /\ counter = 0

\* save returned Err in this step of handler r: File::create failed, or
\* write_all failed after File::create had succeeded.
CreateFails(r) == pc[r] = "SaveCreate" /\ pc'[r] = "NonceReturn"
WriteFails(r) == pc[r] = "SaveWrite" /\ pc'[r] = "NonceReturn" /\ file' = file
SaveFails(r) == CreateFails(r) \/ WriteFails(r)

\* C18: when the durable write fails during next_nonce, the counter is still
\* incremented by exactly 1, that value is returned as the nonce, the durable
\* store keeps its previous content, the request goes on to Signing and is
\* approved, and later issuances continue from the incremented counter.
C18_FailedSaveKeepsStore ==
  [][\A r \in Reqs :
       /\ SaveFails(r) =>
            /\ counter' = local[r].entry.counter + 1
            /\ file' = local[r].entry.file
            /\ pc'[r] = "NonceReturn"
       /\ (pc[r] = "NonceReturn" /\ pc'[r] # "NonceReturn" /\ restarts' = restarts) =>
            /\ local'[r].nonce = local[r].entry.counter + 1
            /\ counter' = local'[r].nonce
            /\ pc'[r] = "Signing"
       /\ (pc[r] = "Signing" /\ pc'[r] # "Signing" /\ restarts' = restarts) =>
            /\ pc'[r] = "done" /\ resp'[r].approved
       /\ (pc[r] = "NextNonce" /\ pc'[r] = "SaveCreate") => counter' = counter + 1]_vars

\* ------------------------------------------------------------------------
\* FairSpec: the co-signer under fair scheduling
\* ------------------------------------------------------------------------
\* The statements of verify_proof after the request was received.
HandlerStep(r) ==
  \/ HexDecode(r)
  \/ Deserialize(r)
  \/ IOComposition(r)
  \/ OutputPolicyCheck(r)
  \/ CryptographicVerification(r)
  \/ NonceLock(r)
  \/ NextNonce(r)
  \/ SaveCreate(r)
  \/ SaveWrite(r)
  \/ NonceReturn(r)
  \/ Signing(r)

\* verify_proof has no .await: a handler that can take its next statement
\* takes it, and a handler blocked in lock() runs once the guard is dropped.
\* No request is dropped: the process is not restarted.
FairNext == \E r \in Reqs : ModelCheck(r) \/ HandlerStep(r)

\* A first start: there is no state file yet.
FairInit == Init /\ file = FileAbsent

FairSpec == FairInit /\ [][FairNext]_vars /\ \A r \in Reqs : WF_vars(HandlerStep(r))

Approved(r) == Done(r) /\ resp[r].status = Ok /\ resp[r].approved

LedgerStepBy(r) == nonce_lock = r /\ pc[r] \in {"NextNonce", "SaveCreate", "SaveWrite"}

\* C20: a request that ends Rejected changes neither the in-memory counter nor
\* the durable state; a request that ends Approved advances the counter by
\* exactly 1; no request changes the authoritative model hash, the signing key
\* or the verifier preprocessing context.
C20_RequestFrame ==
  /\ [](\A r \in Reqs :
          /\ Rejected(r) =>
               /\ IssuedTo(r) = {}
               /\ \A i \in 1..Len(trace[r]) : trace[r][i] # "NonceIssuance"
               /\ local[r].nonce = 0 /\ local[r].entry = NoEntry
          /\ Approved(r) =>
               /\ Cardinality({i \in 1..Len(issued) : issued[i].by = r}) = 1
               /\ Cardinality({i \in 1..Len(trace[r]) : trace[r][i] = "NonceIssuance"}) = 1
               /\ resp[r].nonce = Some(local[r].nonce))
  /\ [][/\ app' = app
        /\ restarts' = restarts =>
             /\ counter' # counter =>
                  \E r \in Reqs : /\ LedgerStepBy(r) /\ pc[r] = "NextNonce"
                                  /\ counter' = counter + 1
             /\ file' # file => \E r \in Reqs : LedgerStepBy(r)
             /\ \A r \in Reqs :
                  /\ (pc[r] = "NextNonce" /\ pc'[r] # pc[r]) => counter' = counter + 1
                  /\ (pc'[r] = "done" /\ pc[r] # "done" /\ ~resp'[r].approved) =>
                       /\ counter' = counter /\ file' = file /\ issued' = issued
                       /\ ~InNonceOrSigning(r)
                  /\ (pc'[r] = "done" /\ pc[r] # "done" /\ resp'[r].approved) =>
                       /\ pc[r] = "Signing"
                       /\ resp'[r].nonce = Some(local[r].nonce)
                  /\ (pc'[r] = "NonceReturn" /\ pc[r] # "NonceReturn") =>
                       counter' = local[r].entry.counter + 1]_vars

\* On a first start one request was rejected by the cryptographic verification
\* and one was approved: the counter and the state file say 1.
C20_Witness ==
  \E r1, r2 \in Reqs :
    /\ Rejected(r1) /\ FailedGate(r1) = "CryptographicVerification"
    /\ Approved(r2)
    /\ epoch.first = "absent" /\ restarts = 0
    /\ counter = 1 /\ file = to_json(1)

\* The counter value held in the durable store: what a load of it gives.
Durable(f) == NonceState_load(f)

\* C21: the counter in the durable store is never ahead of the in-memory
\* counter; the durable value does not decrease while the process runs (here:
\* across a call of next_nonce); and while no durable write has failed, the
\* durable value equals the in-memory counter whenever the ledger lock is free.
C21_DurableFollowsCounter ==
  /\ Durable(file) <= counter
  /\ \A r \in Reqs :
       pc[r] = "NonceReturn" => Durable(file) >= Durable(local[r].entry.file)
  /\ (~io_failed /\ nonce_lock = NoReq) => Durable(file) = counter

\* ------------------------------------------------------------------------
\* NonceSpec: one NonceState whose counter is a u64
\* ------------------------------------------------------------------------
MaxCalls == 3       \* calls of next_nonce on the instance

\* A u64 is four 16-bit limbs, the most significant first.
LimbBase == 2 ^ 16

U64Zero == <<0, 0, 0, 0>>

\* u64::MAX
U64Max == <<LimbBase - 1, LimbBase - 1, LimbBase - 1, LimbBase - 1>>

\* c + 1 modulo 2^64: a limb is incremented when every limb below it is full.
wrapping_add_one(c) ==
  [i \in 1..4 |->
     IF \A j \in (i + 1)..4 : c[j] = LimbBase - 1 THEN (c[i] + 1) % LimbBase ELSE c[i]]

\* self.counter += 1 on a u64: with overflow checks (debug builds) the
\* addition panics at u64::MAX, without them (release builds) it wraps to 0.
add_assign_one(build, c) ==
  IF c = U64Max /\ build = "debug" THEN [panic |-> TRUE, value |-> c]
  ELSE [panic |-> FALSE, value |-> wrapping_add_one(c)]

\* the counters found in the state file at startup: at and around the carries
StartCounters ==
  {<<a, b, c, d>> : a \in {0, LimbBase - 1}, b \in {0, LimbBase - 1},
                    c \in {0, LimbBase - 1}, d \in {0, LimbBase - 2, LimbBase - 1}}

Builds == {"debug", "release"}

\* NonceState::load of a state file that holds counter c
NonceInit ==
  /\ CosignerAtRest
  /\ am = AmIdle
  /\ pre = PreIdle
  /\ pv = PvIdle
  /\ \E build \in Builds, c \in StartCounters :
       ns = [build |-> build, counter |-> c, file |-> to_json(c), issued |-> <<>>,
             poisoned |-> FALSE, calls |-> 0]

NonceFrame == UNCHANGED <<app, ledger, pc, req, local, resp, trace, am, pre, pv>>

\* lock(); next_nonce(): the increment, save (which may fail at File::create
\* or at write_all), and the counter returned
NextNonceReturns ==
  /\ ns.calls < MaxCalls
  /\ LET r == add_assign_one(ns.build, ns.counter)
     IN /\ ~r.panic
        /\ \E saved \in {"ok", "create_failed", "write_failed"} :
             ns' = [ns EXCEPT
                      !.counter = r.value,
                      !.file = IF saved = "ok" THEN to_json(r.value)
                               ELSE IF saved = "create_failed" THEN ns.file
                               ELSE [kind |-> "corrupt", counter |-> U64Zero],
                      !.issued = Append(ns.issued, r.value),
                      !.calls = ns.calls + 1]
  /\ NonceFrame

\* lock(); next_nonce(): the increment panics while the guard is held; the
\* mutex is poisoned, the next lock() takes it through into_inner()
NextNoncePanics ==
  /\ ns.calls < MaxCalls
  /\ add_assign_one(ns.build, ns.counter).panic
  /\ ns' = [ns EXCEPT !.poisoned = TRUE, !.calls = ns.calls + 1]
  /\ NonceFrame

NonceNext == NextNonceReturns \/ NextNoncePanics

NonceSpec == NonceInit /\ [][NonceNext]_vars

\* a < b on u64
u64_less(a, b) ==
  \E i \in 1..4 : a[i] < b[i] /\ \A j \in 1..(i - 1) : a[j] = b[j]

\* C22: every value next_nonce returns is strictly greater than every nonce the
\* instance issued before, also at u64::MAX: the counter never wraps to 0.
C22_NoncesStrictlyIncrease ==
  /\ \A i, j \in 1..Len(ns.issued) : i < j => u64_less(ns.issued[i], ns.issued[j])
  /\ \A i \in 1..Len(ns.issued) : ns.issued[i] # U64Zero

\* ------------------------------------------------------------------------
\* InjectivitySpec: the signing preimages of two different payloads
\* ------------------------------------------------------------------------
\* The payloads other than p: different transaction details with the nonce and
\* timestamp of p, or the details of p with another nonce or timestamp.
OtherPayloads(p) ==
  {q \in Payloads :
     /\ q # p
     /\ \/ q.nonce = p.nonce /\ q.timestamp = p.timestamp
        \/ q.to = p.to /\ q.amount = p.amount /\ q.token = p.token}

\* the construction of msg for a second approved payload
BuildOtherPreimage ==
  /\ pre.msg.some
  /\ ~pre.changed.some
  /\ \E q \in OtherPayloads(pre.input.v) :
       pre' = [pre EXCEPT !.changed = Some(q), !.changed_msg = Some(PreimageOf(q))]
  /\ UNCHANGED <<app, ledger, pc, req, local, resp, trace, am, pv, ns>>

InjectivityNext == BuildPreimage \/ BuildOtherPreimage

InjectivitySpec == PreimageInit /\ [][InjectivityNext]_vars

\* C23: two payloads (to, amount, token, nonce, timestamp) that differ in at
\* least one field have different signing preimages, hence different digests.
C23_PreimageInjective ==
  (pre.changed_msg.some /\ pre.changed.v # pre.input.v) =>
    /\ pre.changed_msg.v # pre.msg.v
    /\ keccak256(pre.changed_msg.v) # keccak256(pre.msg.v)

====
